---- MODULE Spec2Model ----
(***************************************************************************)
(* Model of the multi agent research pipeline: the shared ResearchState    *)
(* (src/app/state.py), the four stage functions and the workflow driver    *)
(* (src/app/agents.py).  One run of execute_workflow on a fresh state is   *)
(* modelled, followed by save_to_file / load_from_file of the returned     *)
(* state.  The search backends and the language model are the environment: *)
(* their results are drawn from bounded sets.  Time is a logical clock:     *)
(* every stage call, save and load begins at a later instant than the one  *)
(* before it.                                                              *)
(***************************************************************************)
EXTENDS Integers, Sequences, FiniteSets, TLC

VARIABLES
    state,      \* the ResearchState threaded through the stages
    pc,         \* position of execute_workflow
    clock,      \* what datetime.now() returns
    web_hits,   \* researcher_agent local: number of hits search_web returned
    wiki_hits,  \* researcher_agent local: number of hits search_wikipedia returned
    idx,        \* analyzer_agent local: position of the for loop in raw_research
    findings,   \* analyzer_agent local: the findings list being built
    llm_calls,  \* number of self.llm.invoke calls made so far
    ret,        \* per stage: the path by which the stage returned
    file,       \* the persisted JSON file: <<>> or <<dict>>
    loaded,     \* result of load_from_file: <<>> or <<ResearchState>>
    filtered,   \* number of sources analyzer_agent discarded as irrelevant
    report_out, \* what self.llm.invoke returned to writer_agent, None before
    answer,     \* analyzer_agent local: <<relevance>> as the model gave it, <<>> outside the loop
    validated_sources  \* critic_agent local: what validate_sources returned

vars == <<state, pc, clock, web_hits, wiki_hits, idx, findings, llm_calls, ret, file, loaded,
         filtered, report_out, answer, validated_sources>>

(***************************************************************************)
(* Bounds of the model and constants of the program                        *)
(***************************************************************************)
MaxWebHits == 8
MaxWikiHits == 1
WebCap == 7

Queries == {"test topic", "quantum computing"}

None == "<None>"

Min(a, b) == IF a < b THEN a ELSE b

(***************************************************************************)
(* Strings the model inspects are sequences of characters                  *)
(***************************************************************************)
Whitespace == {" ", "\n", "\t"}

UpperChar(c) ==
    CASE c = "a" -> "A" [] c = "e" -> "E" [] c = "k" -> "K" [] c = "n" -> "N"
      [] c = "o" -> "O" [] c = "r" -> "R" [] c = "s" -> "S" [] c = "t" -> "T"
      [] c = "u" -> "U" [] c = "w" -> "W" [] c = "y" -> "Y"
      [] OTHER -> c

upper(s) == [i \in 1..Len(s) |-> UpperChar(s[i])]

RECURSIVE lstrip(_)
lstrip(s) == IF s # <<>> /\ Head(s) \in Whitespace THEN lstrip(Tail(s)) ELSE s

RECURSIVE rstrip(_)
rstrip(s) ==
    IF s # <<>> /\ s[Len(s)] \in Whitespace THEN rstrip(SubSeq(s, 1, Len(s) - 1)) ELSE s

strip(s) == rstrip(lstrip(s))

contains(sub, s) ==
    \E i \in 1..(Len(s) - Len(sub) + 1) : SubSeq(s, i, i + Len(sub) - 1) = sub

\* answers the model may give to the relevance question
RelevanceAnswers ==
    { <<"Y","E","S">>,
      <<"N","O">>,
      <<" ","n","o","\n">>,
      <<"y","e","s","\n">>,
      <<"Y","e","s",","," ","n","o","t"," ","s","u","r","e">>,
      <<"U","n","k","n","o","w","n">> }

AnalysisTexts == {"bullet text"}
CriticismTexts == {"critique text"}
ReportTexts == {"report text", ""}

(***************************************************************************)
(* src/app/tools.py: what the two backends hand to the researcher          *)
(***************************************************************************)
\* the second web hit is a preprint, the others come from an ordinary site
WebHit(i) == [title |-> <<"web title", i>>, summary |-> <<"web body", i>>,
              link |-> <<IF i = 2 THEN "https://arxiv.org/abs/" ELSE "https://example.com/", i>>]

WikiHit(i) == [title |-> <<"wiki title", i>>, summary |-> <<"wiki summary", i>>,
               url |-> <<"https://en.wikipedia.org/wiki/", i>>]

search_web(n) == [i \in 1..n |-> WebHit(i)]

search_wikipedia(n) == [i \in 1..n |-> WikiHit(i)]

\* validate_sources: the indicators of a reliable address
reliable_domains ==
    {"wikipedia.org", "github.com", "medium.com", "arxiv.org", ".edu", ".gov",
     "research", "journal", "conference"}

\* domain in url.lower(), over the addresses the backends produce
DomainInUrl(domain, url) ==
    <<domain, url[1]>> \in { <<"wikipedia.org", "https://en.wikipedia.org/wiki/">>,
                             <<"arxiv.org", "https://arxiv.org/abs/">> }

\* the score given to one source dict (tenths): 0.5 unless a reliable domain occurs
Rescore(source) ==
    LET url == IF source.link # <<>> THEN source.link ELSE source.url
    IN  [link |-> source.link, url |-> source.url,
         reliability_score |->
             IF \E domain \in reliable_domains : DomainInUrl(domain, url) THEN 9 ELSE 5]

\* sorted(..., key = reliability_score, reverse = True) is stable and the scores
\* take two values: the reliable sources first, each group in its given order
SortByReliability(validated) ==
    SelectSeq(validated, LAMBDA v : v.reliability_score = 9)
        \o SelectSeq(validated, LAMBDA v : v.reliability_score # 9)

validate_sources(sources) ==
    SortByReliability([i \in 1..Len(sources) |-> Rescore(sources[i])])

(***************************************************************************)
(* src/app/state.py                                                        *)
(***************************************************************************)
ResearchSource(title, content, url, source_type, reliability_score) ==
    [title |-> title, content |-> content, url |-> url,
     reliability_score |-> reliability_score, source_type |-> source_type]

ResearchFinding(topic, finding, sources, verified) ==
    [topic |-> topic, finding |-> finding, sources |-> sources, verified |-> verified]

EmptyDict == [k \in {} |-> None]

isoformat(t) == [iso |-> t]

fromisoformat(s) == s.iso

\* the field defaults of the class body
ResearchStateDefaults ==
    [research_query |-> "", raw_research |-> <<>>, analyzed_findings |-> <<>>,
     criticism |-> "", contradictions_found |-> <<>>,
     verification_status |-> "not_started", final_report |-> "",
     report_metadata |-> EmptyDict, conversation_history |-> <<>>,
     current_agent |-> "", execution_status |-> "idle", error_message |-> None]

\* ResearchState(**data): defaults overridden by data, created_at kept when
\* given, updated_at always set to now
NewResearchState(data, now) ==
    [f \in DOMAIN ResearchStateDefaults \cup {"created_at", "updated_at"} |->
        CASE f = "updated_at" -> now
          [] f = "created_at" ->
                IF "created_at" \in DOMAIN data THEN fromisoformat(data.created_at) ELSE now
          [] OTHER -> IF f \in DOMAIN data THEN data[f] ELSE ResearchStateDefaults[f]]

\* faulty variant: the log is replaced by its newest entry
add_to_history_Overwrites(s, agent, action, result, now) ==
    [s EXCEPT !.conversation_history =
                  <<[timestamp |-> isoformat(now), agent |-> agent,
                     action |-> action, result |-> result]>>,
              !.updated_at = now]

add_to_history(s, agent, action, result, now) ==
    [s EXCEPT !.conversation_history =
                  Append(@, [timestamp |-> isoformat(now), agent |-> agent,
                             action |-> action, result |-> result]),
              !.updated_at = now]

to_dict(s) ==
    [research_query |-> s.research_query,
     raw_research |-> s.raw_research,
     analyzed_findings |-> s.analyzed_findings,
     criticism |-> s.criticism,
     contradictions_found |-> s.contradictions_found,
     verification_status |-> s.verification_status,
     final_report |-> s.final_report,
     report_metadata |-> s.report_metadata,
     conversation_history |-> s.conversation_history,
     execution_status |-> s.execution_status,
     created_at |-> isoformat(s.created_at),
     updated_at |-> isoformat(s.updated_at)]

(***************************************************************************)
(* src/app/agents.py: execute_workflow constructs the state                *)
(***************************************************************************)
NoReturn == [researcher |-> "-", analyzer |-> "-", critic |-> "-", writer |-> "-"]

Init ==
    /\ \E q \in Queries : state = NewResearchState([research_query |-> q], 0)
    /\ pc = "researcher"
    /\ clock = 1
    /\ web_hits = 0
    /\ wiki_hits = 0
    /\ idx = 0
    /\ findings = <<>>
    /\ llm_calls = 0
    /\ ret = NoReturn
    /\ file = <<>>
    /\ loaded = <<>>
    /\ filtered = 0
    /\ report_out = None
    /\ answer = <<>>
    /\ validated_sources = <<>>

(***************************************************************************)
(* researcher_agent                                                        *)
(***************************************************************************)
WikiSource(result) == ResearchSource(result.title, result.summary, result.url, "wikipedia", 9)

\* faulty variant: web hits get the encyclopedic score
WebSource_Trusted(result) ==
    ResearchSource(result.title, result.summary, result.link, "web", 9)

WebSource(result) == ResearchSource(result.title, result.summary, result.link, "web", 6)

\* reliability scores are kept in tenths: 9 is 0.9, 6 is 0.6
\* faulty variant: the general-web hits are dropped
ConvertSources_WikiOnly(wiki, web) == [i \in 1..Len(wiki) |-> WikiSource(wiki[i])]

ConvertSources(wiki, web) ==
    [i \in 1..Len(wiki) |-> WikiSource(wiki[i])]
        \o [i \in 1..Min(Len(web), WebCap) |-> WebSource(web[i])]

EnterResearcher(s) ==
    [s EXCEPT !.current_agent = "researcher", !.execution_status = "running"]

\* faulty variant: the empty search is not reported as an error
ResearcherNoResults_Silent(s) == [s EXCEPT !.error_message = ""]

ResearcherNoResults(s) ==
    [s EXCEPT !.error_message = "Search failed - no results found",
              !.execution_status = "error"]

ResearcherAllFiltered(s) ==
    [s EXCEPT !.error_message = "All search results were filtered as irrelevant",
              !.execution_status = "error"]

ResearcherStore(s, sources, wiki, web, now) ==
    add_to_history([s EXCEPT !.raw_research = sources], "researcher", "search",
                   [msg |-> "Found sources", args |-> <<Len(sources), Len(wiki), Len(web)>>],
                   now)

ResearcherExcept(s) ==
    [s EXCEPT !.error_message = "Error in researcher agent: e",
              !.execution_status = "error"]

\* the try body once both backends have returned
ResearcherBody(s, wiki, web, now) ==
    IF web = <<>> /\ wiki = <<>>
    THEN [st |-> ResearcherNoResults(s), how |-> "no_results"]
    ELSE LET sources == ConvertSources(wiki, web)
         IN IF sources = <<>>
            THEN [st |-> ResearcherAllFiltered(s), how |-> "all_filtered"]
            ELSE [st |-> ResearcherStore(s, sources, wiki, web, now), how |-> "ok"]

\* lines 52-53, before the try block
researcher_enter ==
    /\ pc = "researcher"
    /\ state' = EnterResearcher(state)
    /\ pc' = "researcher_body"
    /\ UNCHANGED <<clock, web_hits, wiki_hits, idx, findings, llm_calls, ret, file, loaded, filtered, report_out,
                 answer, validated_sources>>

\* the try block: the backends return w and k hits, or an exception escapes
researcher_agent ==
    /\ pc = "researcher_body"
    /\ \E w \in 0..MaxWebHits, k \in 0..MaxWikiHits, raises \in BOOLEAN :
          LET r == ResearcherBody(state, search_wikipedia(k), search_web(w), clock)
          IN IF raises
             THEN /\ w = 0 /\ k = 0
                  /\ state' = ResearcherExcept(state)
                  /\ ret' = [ret EXCEPT !.researcher = "raised"]
                  /\ web_hits' = 0 /\ wiki_hits' = 0
             ELSE /\ state' = r.st
                  /\ ret' = [ret EXCEPT !.researcher = r.how]
                  /\ web_hits' = w /\ wiki_hits' = k
    /\ pc' = "analyzer"
    /\ clock' = clock + 1
    /\ UNCHANGED <<idx, findings, llm_calls, file, loaded, filtered, report_out,
                 answer, validated_sources>>

(***************************************************************************)
(* analyzer_agent: entry, one action per iteration of the loop over        *)
(* raw_research, and the code after the loop                               *)
(***************************************************************************)
EnterAnalyzer(s) ==
    [s EXCEPT !.current_agent = "analyzer", !.execution_status = "running"]

AnalyzerNoSources(s, now) ==
    add_to_history(s, "analyzer", "analyze", [msg |-> "No sources to analyze", args |-> <<>>], now)

AnalyzerExcept(s) ==
    [s EXCEPT !.error_message = "Analyzer error: e", !.execution_status = "error"]

AnalyzerAllIrrelevant(s) ==
    [s EXCEPT !.error_message = "All sources were deemed irrelevant to the query",
              !.execution_status = "error"]

\* faulty variant: the history entry is written but the findings are not
AnalyzerStore_Forgets(s, fs, now) ==
    add_to_history(s, "analyzer", "analyze",
                   [msg |-> "Analyzed relevant sources and extracted findings",
                    args |-> <<Len(fs)>>],
                   now)

\* faulty variant: the last finding is lost when the list is stored
AnalyzerStore_DropsLast(s, fs, now) ==
    add_to_history([s EXCEPT !.analyzed_findings = SubSeq(fs, 1, Len(fs) - 1)],
                   "analyzer", "analyze",
                   [msg |-> "Analyzed relevant sources and extracted findings",
                    args |-> <<Len(fs)>>],
                   now)

AnalyzerStore(s, fs, now) ==
    add_to_history([s EXCEPT !.analyzed_findings = fs], "analyzer", "analyze",
                   [msg |-> "Analyzed relevant sources and extracted findings",
                    args |-> <<Len(fs)>>],
                   now)

\* "NO" in self.llm.invoke(verify).strip().upper()
IsFiltered(relevance) == contains(<<"N", "O">>, upper(strip(relevance)))

\* faulty variant: the finding does not record its source
NewFinding_NoSource(s, source, analysis) ==
    ResearchFinding(s.research_query, analysis, <<>>, FALSE)

NewFinding(s, source, analysis) ==
    ResearchFinding(s.research_query, analysis, <<source>>, FALSE)

analyzer_begin ==
    /\ pc = "analyzer"
    /\ LET s0 == EnterAnalyzer(state)
       IN IF s0.raw_research = <<>>
          THEN /\ state' = AnalyzerNoSources(s0, clock)
               /\ ret' = [ret EXCEPT !.analyzer = "no_sources"]
               /\ pc' = "critic"
               /\ idx' = idx
          ELSE /\ state' = s0
               /\ ret' = ret
               /\ pc' = "analyzer_loop"
               /\ idx' = 1
    /\ findings' = <<>>
    /\ clock' = clock + 1
    /\ UNCHANGED <<web_hits, wiki_hits, llm_calls, file, loaded, filtered, report_out,
                 answer, validated_sources>>

\* the relevance call raises
analyzer_relevance_raises ==
    /\ pc = "analyzer_loop"
    /\ idx <= Len(state.raw_research)
    /\ llm_calls' = llm_calls + 1
    /\ state' = AnalyzerExcept(state)
    /\ ret' = [ret EXCEPT !.analyzer = "raised"]
    /\ pc' = "critic"
    /\ idx' = 0
    /\ findings' = <<>>
    /\ answer' = <<>>
    /\ UNCHANGED <<clock, web_hits, wiki_hits, file, loaded, filtered, report_out,
                 validated_sources>>

\* the relevance call answers and the source is filtered
analyzer_filter ==
    /\ pc = "analyzer_loop"
    /\ idx <= Len(state.raw_research)
    /\ \E relevance \in RelevanceAnswers :
          /\ IsFiltered(relevance)
          /\ answer' = <<relevance>>
    /\ llm_calls' = llm_calls + 1
    /\ filtered' = filtered + 1
    /\ idx' = idx + 1
    /\ UNCHANGED <<state, pc, clock, web_hits, wiki_hits, findings, ret, file, loaded, report_out,
                 validated_sources>>

\* faulty variant: the new finding is put in front of the earlier ones
analyzer_keep_Prepends ==
    /\ pc = "analyzer_loop"
    /\ idx <= Len(state.raw_research)
    /\ \E relevance \in RelevanceAnswers, analysis \in AnalysisTexts :
          /\ ~IsFiltered(relevance)
          /\ answer' = <<relevance>>
          /\ findings' = <<NewFinding(state, state.raw_research[idx], analysis)>> \o findings
    /\ llm_calls' = llm_calls + 2
    /\ idx' = idx + 1
    /\ UNCHANGED <<state, pc, clock, web_hits, wiki_hits, ret, file, loaded, filtered, report_out,
                 validated_sources>>

\* the source is kept and the summary call returns
analyzer_keep ==
    /\ pc = "analyzer_loop"
    /\ idx <= Len(state.raw_research)
    /\ \E relevance \in RelevanceAnswers, analysis \in AnalysisTexts :
          /\ ~IsFiltered(relevance)
          /\ answer' = <<relevance>>
          /\ findings' = Append(findings, NewFinding(state, state.raw_research[idx], analysis))
    /\ llm_calls' = llm_calls + 2
    /\ idx' = idx + 1
    /\ UNCHANGED <<state, pc, clock, web_hits, wiki_hits, ret, file, loaded, filtered, report_out,
                 validated_sources>>

\* the source is kept and the summary call raises
analyzer_summary_raises ==
    /\ pc = "analyzer_loop"
    /\ idx <= Len(state.raw_research)
    /\ \E relevance \in RelevanceAnswers : ~IsFiltered(relevance)
    /\ llm_calls' = llm_calls + 2
    /\ state' = AnalyzerExcept(state)
    /\ ret' = [ret EXCEPT !.analyzer = "raised"]
    /\ pc' = "critic"
    /\ idx' = 0
    /\ findings' = <<>>
    /\ answer' = <<>>
    /\ UNCHANGED <<clock, web_hits, wiki_hits, file, loaded, filtered, report_out,
                 validated_sources>>

\* faulty variant: an empty findings list is stored like any other
analyzer_end_StoresEmpty ==
    /\ pc = "analyzer_loop"
    /\ idx > Len(state.raw_research)
    /\ state' = AnalyzerStore(state, findings, clock)
    /\ ret' = [ret EXCEPT !.analyzer = "ok"]
    /\ pc' = "critic"
    /\ idx' = 0
    /\ findings' = <<>>
    /\ answer' = <<>>
    /\ clock' = clock + 1
    /\ UNCHANGED <<web_hits, wiki_hits, llm_calls, file, loaded, filtered, report_out,
                 validated_sources>>

analyzer_end ==
    /\ pc = "analyzer_loop"
    /\ idx > Len(state.raw_research)
    /\ IF findings = <<>>
       THEN /\ state' = AnalyzerAllIrrelevant(state)
            /\ ret' = [ret EXCEPT !.analyzer = "all_irrelevant"]
       ELSE /\ state' = AnalyzerStore(state, findings, clock)
            /\ ret' = [ret EXCEPT !.analyzer = "ok"]
    /\ pc' = "critic"
    /\ idx' = 0
    /\ findings' = <<>>
    /\ answer' = <<>>
    /\ clock' = clock + 1
    /\ UNCHANGED <<web_hits, wiki_hits, llm_calls, file, loaded, filtered, report_out,
                 validated_sources>>

(***************************************************************************)
(* critic_agent                                                            *)
(***************************************************************************)
\* faulty variant: the critic does not announce itself
EnterCritic_Anonymous(s) == [s EXCEPT !.verification_status = "in_progress"]

EnterCritic(s) ==
    [s EXCEPT !.current_agent = "critic", !.verification_status = "in_progress"]

\* faulty variant: only the first finding is marked
MarkVerified_FirstOnly(fs) ==
    [i \in 1..Len(fs) |-> IF i = 1 THEN [fs[i] EXCEPT !.verified = TRUE] ELSE fs[i]]

MarkVerified(fs) == [i \in 1..Len(fs) |-> [fs[i] EXCEPT !.verified = TRUE]]

\* all_sources: the sources of every finding, in order
RECURSIVE AllSources(_)
AllSources(fs) == IF fs = <<>> THEN <<>> ELSE Head(fs).sources \o AllSources(Tail(fs))

\* the fresh dicts the critic hands to validate_sources
SourceDicts(all_sources) ==
    [i \in 1..Len(all_sources) |-> [link |-> all_sources[i].url, url |-> all_sources[i].url]]

\* faulty variant: the status is left in progress
CriticStore_NotCompleted(s, criticism, now) ==
    add_to_history([s EXCEPT !.criticism = criticism,
                             !.analyzed_findings = MarkVerified(@)],
                   "critic", "validate",
                   [msg |-> "Validated findings and sources", args |-> <<>>], now)

\* faulty variant: the new scores are written back into the findings' sources
CriticStore_WritesBack(s, criticism, now) ==
    LET rescored(src) ==
            [src EXCEPT !.reliability_score =
                Rescore([link |-> src.url, url |-> src.url]).reliability_score]
        marked(f) ==
            [f EXCEPT !.verified = TRUE,
                      !.sources = [k \in 1..Len(f.sources) |-> rescored(f.sources[k])]]
    IN  add_to_history([s EXCEPT !.criticism = criticism,
                                 !.verification_status = "completed",
                                 !.analyzed_findings =
                                     [i \in 1..Len(s.analyzed_findings) |->
                                         marked(s.analyzed_findings[i])]],
                       "critic", "validate",
                       [msg |-> "Validated findings and sources", args |-> <<>>], now)

\* faulty variant: the critic leaves no trace in the history
CriticStore_Unlogged(s, criticism, now) ==
    [s EXCEPT !.criticism = criticism,
              !.verification_status = "completed",
              !.analyzed_findings = MarkVerified(@)]

CriticStore(s, criticism, now) ==
    add_to_history([s EXCEPT !.criticism = criticism,
                             !.verification_status = "completed",
                             !.analyzed_findings = MarkVerified(@)],
                   "critic", "validate",
                   [msg |-> "Validated findings and sources", args |-> <<>>], now)

\* faulty variant: the handler records the message but not the status
CriticExcept_NoStatus(s) == [s EXCEPT !.error_message = "Error in critic agent: e"]

CriticExcept(s) ==
    [s EXCEPT !.error_message = "Error in critic agent: e", !.execution_status = "error"]

\* lines 224-225, before the try block
critic_enter ==
    /\ pc = "critic"
    /\ state' = EnterCritic(state)
    /\ pc' = "critic_body"
    /\ UNCHANGED <<clock, web_hits, wiki_hits, idx, findings, llm_calls, ret, file, loaded, filtered, report_out,
                 answer, validated_sources>>

\* faulty variant: the model is consulted before the findings are looked at
critic_agent_CallsFirst ==
    /\ pc = "critic_body"
    /\ llm_calls' = llm_calls + 1
    /\ IF state.analyzed_findings = <<>>
       THEN /\ state' = state
            /\ ret' = [ret EXCEPT !.critic = "no_findings"]
            /\ validated_sources' = validated_sources
       ELSE /\ validated_sources' =
                   validate_sources(SourceDicts(AllSources(state.analyzed_findings)))
            /\ \/ \E criticism \in CriticismTexts :
                     /\ state' = CriticStore(state, criticism, clock)
                     /\ ret' = [ret EXCEPT !.critic = "ok"]
               \/ /\ state' = CriticExcept(state)
                  /\ ret' = [ret EXCEPT !.critic = "raised"]
    /\ pc' = "writer"
    /\ clock' = clock + 1
    /\ UNCHANGED <<web_hits, wiki_hits, idx, findings, file, loaded, filtered, report_out,
                 answer>>

\* the try block
critic_agent ==
    /\ pc = "critic_body"
    /\ IF state.analyzed_findings = <<>>
       THEN /\ state' = state
            /\ ret' = [ret EXCEPT !.critic = "no_findings"]
            /\ llm_calls' = llm_calls
            /\ validated_sources' = validated_sources
       ELSE /\ validated_sources' =
                   validate_sources(SourceDicts(AllSources(state.analyzed_findings)))
            /\ llm_calls' = llm_calls + 1
            /\ \/ \E criticism \in CriticismTexts :
                     /\ state' = CriticStore(state, criticism, clock)
                     /\ ret' = [ret EXCEPT !.critic = "ok"]
               \/ /\ state' = CriticExcept(state)
                  /\ ret' = [ret EXCEPT !.critic = "raised"]
    /\ pc' = "writer"
    /\ clock' = clock + 1
    /\ UNCHANGED <<web_hits, wiki_hits, idx, findings, file, loaded, filtered, report_out,
                 answer>>

(***************************************************************************)
(* writer_agent                                                            *)
(***************************************************************************)
Placeholder == "No findings to report"

EnterWriter(s) == [s EXCEPT !.current_agent = "writer"]

\* faulty variant: the placeholder path also reports completion
WriterNoFindings_Completes(s) ==
    [s EXCEPT !.final_report = Placeholder, !.execution_status = "completed"]

WriterNoFindings(s) == [s EXCEPT !.final_report = Placeholder]

\* faulty variant: the findings are counted as the sources
ReportMetadata_CountsFindings(s) ==
    [query |-> s.research_query,
     sources_used |-> Len(s.analyzed_findings),
     findings_extracted |-> Len(s.analyzed_findings),
     verification_completed |-> (s.verification_status = "completed")]

ReportMetadata(s) ==
    [query |-> s.research_query,
     sources_used |-> Len(s.raw_research),
     findings_extracted |-> Len(s.analyzed_findings),
     verification_completed |-> (s.verification_status = "completed")]

\* faulty variant: a successful report clears the earlier error message
WriterStore_ClearsError(s, report, now) ==
    add_to_history([s EXCEPT !.final_report = report,
                             !.report_metadata = ReportMetadata(s),
                             !.execution_status = "completed",
                             !.error_message = None],
                   "writer", "report",
                   [msg |-> "Compiled final research report", args |-> <<>>], now)

\* faulty variant: the report is stored without its metadata
WriterStore_NoMetadata(s, report, now) ==
    add_to_history([s EXCEPT !.final_report = report,
                             !.execution_status = "completed"],
                   "writer", "report",
                   [msg |-> "Compiled final research report", args |-> <<>>], now)

WriterStore(s, report, now) ==
    add_to_history([s EXCEPT !.final_report = report,
                             !.report_metadata = ReportMetadata(s),
                             !.execution_status = "completed"],
                   "writer", "report",
                   [msg |-> "Compiled final research report", args |-> <<>>], now)

WriterExcept(s) ==
    [s EXCEPT !.error_message = "[Writer] Error in writer reporting agent: e",
              !.execution_status = "error"]

writer_agent ==
    /\ pc = "writer"
    /\ LET s0 == EnterWriter(state)
       IN IF s0.analyzed_findings = <<>>
          THEN /\ state' = WriterNoFindings(s0)
               /\ ret' = [ret EXCEPT !.writer = "no_findings"]
               /\ llm_calls' = llm_calls
               /\ report_out' = report_out
          ELSE /\ llm_calls' = llm_calls + 1
               /\ \/ \E report \in ReportTexts :
                        /\ state' = WriterStore(s0, report, clock)
                        /\ ret' = [ret EXCEPT !.writer = "ok"]
                        /\ report_out' = report
                  \/ /\ state' = WriterExcept(s0)
                     /\ ret' = [ret EXCEPT !.writer = "raised"]
                     /\ report_out' = report_out
    /\ pc' = "done"
    /\ clock' = clock + 1
    /\ UNCHANGED <<web_hits, wiki_hits, idx, findings, file, loaded, filtered,
                 answer, validated_sources>>

(***************************************************************************)
(* The returned state is saved and loaded back                             *)
(***************************************************************************)
\* json.dumps / json.load keep a dict of strings, numbers, booleans, lists
\* and dicts as it is
to_json(s) == to_dict(s)

save_to_file ==
    /\ pc = "done"
    /\ file = <<>>
    /\ file' = <<to_json(state)>>
    /\ clock' = clock + 1
    /\ UNCHANGED <<state, pc, web_hits, wiki_hits, idx, findings, llm_calls, ret, loaded, filtered, report_out,
                 answer, validated_sources>>

load_from_file ==
    /\ file # <<>>
    /\ loaded = <<>>
    /\ loaded' = <<NewResearchState(file[1], clock)>>
    /\ clock' = clock + 1
    /\ UNCHANGED <<state, pc, web_hits, wiki_hits, idx, findings, llm_calls, ret, file, filtered, report_out,
                 answer, validated_sources>>

Next ==
    \/ researcher_enter
    \/ researcher_agent
    \/ analyzer_begin
    \/ analyzer_relevance_raises
    \/ analyzer_filter
    \/ analyzer_keep
    \/ analyzer_summary_raises
    \/ analyzer_end
    \/ critic_enter
    \/ critic_agent
    \/ writer_agent
    \/ save_to_file
    \/ load_from_file

Spec == Init /\ [][Next]_vars

\* execute_workflow is straight-line code: the stage whose turn it is runs
Workflow ==
    \/ researcher_enter
    \/ researcher_agent
    \/ analyzer_begin
    \/ analyzer_relevance_raises
    \/ analyzer_filter
    \/ analyzer_keep
    \/ analyzer_summary_raises
    \/ analyzer_end
    \/ critic_enter
    \/ critic_agent
    \/ writer_agent

FairSpec == Spec /\ WF_vars(Workflow)

(***************************************************************************)
(* Properties                                                              *)
(***************************************************************************)
AllVerified(s) == \A i \in 1..Len(s.analyzed_findings) : s.analyzed_findings[i].verified

BothBackendsEmpty == ret.researcher # "raised" /\ web_hits = 0 /\ wiki_hits = 0

\* C1: when both backends return zero results, the state execute_workflow
\* returns has execution_status = error, an empty final_report and no findings.
C1_ZeroResultsFinalState ==
    (pc = "done" /\ BothBackendsEmpty) =>
        /\ state.execution_status = "error"
        /\ state.final_report = ""
        /\ state.analyzed_findings = <<>>

\* C2: no step of critic_agent on a state without findings changes
\* verification_status, criticism, the findings or the history.
C2_CriticNoOpOnEmpty ==
    [][(pc \in {"critic", "critic_body"} /\ state.analyzed_findings = <<>>) =>
          /\ state'.verification_status = state.verification_status
          /\ state'.criticism = state.criticism
          /\ state'.analyzed_findings = state.analyzed_findings
          /\ state'.conversation_history = state.conversation_history]_vars

\* C3: the state execute_workflow returns has execution_status completed or
\* error, never idle or running.
C3_TerminalStatus ==
    pc = "done" => state.execution_status \in {"completed", "error"}

\* C4: execution_status changes only along idle->running, running->completed
\* and running->error.
C4_StatusTransitions ==
    [][state'.execution_status # state.execution_status =>
          <<state.execution_status, state'.execution_status>> \in
              {<<"idle", "running">>, <<"running", "completed">>, <<"running", "error">>}]_vars

\* C5: when researcher_agent returns and a backend gave at least one hit,
\* raw_research has at least one entry and execution_status is not error.
C5_ResearcherSuccess ==
    (pc = "analyzer" /\ ret.researcher # "raised" /\ (web_hits > 0 \/ wiki_hits > 0)) =>
        /\ Len(state.raw_research) >= 1
        /\ state.execution_status # "error"

C5_Witness ==
    /\ pc = "analyzer"
    /\ ret.researcher = "ok"
    /\ web_hits > 0 /\ wiki_hits = 0
    /\ Len(state.raw_research) >= 1
    /\ state.execution_status = "running"

\* C6: when researcher_agent returns and both backends gave no hit,
\* execution_status is error, error_message is a non-empty string,
\* raw_research is still empty and the history has no entry.
C6_ResearcherNoResults ==
    (pc = "analyzer" /\ BothBackendsEmpty) =>
        /\ state.execution_status = "error"
        /\ state.error_message \notin {None, ""}
        /\ state.raw_research = <<>>
        /\ state.conversation_history = <<>>

C6_Witness ==
    /\ pc = "analyzer"
    /\ BothBackendsEmpty
    /\ ret.researcher = "no_results"
    /\ state.execution_status = "error"

\* C7: after analyzer_agent there are at most as many findings as sources,
\* and every finding's sources list is non-empty and holds only elements of
\* raw_research.
C7_FindingsFromSources ==
    pc \in {"critic", "critic_body", "writer", "done"} =>
        /\ Len(state.analyzed_findings) <= Len(state.raw_research)
        /\ \A i \in 1..Len(state.analyzed_findings) :
              LET f == state.analyzed_findings[i]
              IN /\ f.sources # <<>>
                 /\ \A j \in 1..Len(f.sources) :
                       \E k \in 1..Len(state.raw_research) :
                          state.raw_research[k] = f.sources[j]

C7_Witness ==
    /\ pc = "critic"
    /\ ret.analyzer = "ok"
    /\ Len(state.analyzed_findings) >= 2
    /\ Len(state.analyzed_findings) < Len(state.raw_research)

\* C8 as stated: after critic_agent ran on a state with findings, every
\* finding is verified, whatever the model call did.
C8_AlwaysVerified ==
    (pc = "writer" /\ state.analyzed_findings # <<>>) => AllVerified(state)

\* C8 amended: after critic_agent ran on a state with findings and its model
\* call returned, every finding is verified.
C8_VerifiedOnSuccess ==
    (pc = "writer" /\ state.analyzed_findings # <<>> /\ ret.critic # "raised") =>
        AllVerified(state)

C8_Witness ==
    /\ pc = "writer"
    /\ ret.critic = "ok"
    /\ Len(state.analyzed_findings) >= 2
    /\ AllVerified(state)

\* C9: writer_agent on a state without findings sets final_report to the
\* placeholder, invokes the model zero times and leaves execution_status,
\* report_metadata and the history unchanged.
C9_WriterPlaceholder ==
    [][(pc = "writer" /\ state.analyzed_findings = <<>>) =>
          /\ state'.final_report = Placeholder
          /\ llm_calls' = llm_calls
          /\ state'.execution_status = state.execution_status
          /\ state'.report_metadata = state.report_metadata
          /\ state'.conversation_history = state.conversation_history]_vars

C9_Witness ==
    /\ pc = "done"
    /\ ret.writer = "no_findings"
    /\ state.analyzed_findings = <<>>
    /\ state.final_report = Placeholder
    /\ state.execution_status = "error"

\* C10: the state loaded back from the saved file equals the saved state on
\* every field (the two timestamps are compared by C10 only up to precision,
\* and are left out here).
RoundTripFields == DOMAIN ResearchStateDefaults

C10_RoundTrip ==
    loaded # <<>> => \A f \in RoundTripFields : loaded[1][f] = state[f]

NoCallFailed == \A stage \in DOMAIN ret : ret[stage] # "raised"

\* C11 as stated: with w <= 7 general hits, k encyclopedic hits (w + k >= 1),
\* every relevance answer accepted and no failing call, the returned state has
\* w + k findings, all verified, verification completed, a non-empty report
\* equal to the model output, sources_used = w + k and status completed.
C11_HappyPathNonEmptyReport ==
    (pc = "done" /\ NoCallFailed /\ filtered = 0
        /\ web_hits <= WebCap /\ web_hits + wiki_hits >= 1) =>
        /\ Len(state.analyzed_findings) = web_hits + wiki_hits
        /\ state.verification_status = "completed"
        /\ AllVerified(state)
        /\ state.final_report # ""
        /\ state.final_report = report_out
        /\ state.report_metadata.sources_used = web_hits + wiki_hits
        /\ state.execution_status = "completed"

\* C11 amended: the same, with the report equal to the model output and
\* non-empty when that output is.
C11_HappyPath ==
    (pc = "done" /\ NoCallFailed /\ filtered = 0
        /\ web_hits <= WebCap /\ web_hits + wiki_hits >= 1) =>
        /\ Len(state.analyzed_findings) = web_hits + wiki_hits
        /\ state.verification_status = "completed"
        /\ AllVerified(state)
        /\ state.final_report = report_out
        /\ report_out # None
        /\ state.report_metadata.sources_used = web_hits + wiki_hits
        /\ state.execution_status = "completed"

C11_Witness ==
    /\ pc = "done"
    /\ NoCallFailed /\ filtered = 0
    /\ web_hits = 2 /\ wiki_hits = 1
    /\ Len(state.analyzed_findings) = 3
    /\ state.final_report = "report text"
    /\ state.execution_status = "completed"

\* C12: execute_workflow terminates; current_agent takes the values
\* researcher, analyzer, critic, writer in that order, each once; a stage
\* starts only after the previous one has returned, and when the driver
\* returns all four have returned, whatever the earlier stages did.
AgentOrder ==
    {<<"", "researcher">>, <<"researcher", "analyzer">>,
     <<"analyzer", "critic">>, <<"critic", "writer">>}

C12_StagesInOrder ==
    /\ [][state'.current_agent # state.current_agent =>
             <<state.current_agent, state'.current_agent>> \in AgentOrder]_vars
    /\ [](/\ state.current_agent = "analyzer" => ret.researcher # "-"
          /\ state.current_agent = "critic" => ret.analyzer # "-"
          /\ state.current_agent = "writer" => ret.critic # "-"
          /\ pc = "done" =>
                /\ state.current_agent = "writer"
                /\ \A stage \in DOMAIN ret : ret[stage] # "-")
    /\ <>(pc = "done")

C12_Witness ==
    /\ pc = "done"
    /\ ret.researcher = "no_results"
    /\ state.current_agent = "writer"
    /\ \A stage \in DOMAIN ret : ret[stage] # "-"

HasError(s) == s.execution_status = "error" /\ s.error_message # None

\* C13: a stage in which a model or backend call raised returns the state
\* with execution_status = error and an error_message; the exception does
\* not leave the stage, so the driver goes on with the remaining stages and
\* returns.
C13_RaiseIsContained ==
    /\ (pc = "analyzer" /\ ret.researcher = "raised") => HasError(state)
    /\ (pc = "critic" /\ ret.analyzer = "raised") => HasError(state)
    /\ (pc = "writer" /\ ret.critic = "raised") => HasError(state)
    /\ (pc = "done" /\ ret.writer = "raised") => HasError(state)
    /\ (~NoCallFailed /\ pc # "done") => ENABLED Workflow
    /\ pc = "done" => \A stage \in DOMAIN ret : ret[stage] # "-"

C13_Witness ==
    /\ pc = "done"
    /\ ret.researcher = "ok"
    /\ ret.analyzer = "ok"
    /\ ret.critic = "raised"
    /\ ret.writer = "raised"
    /\ HasError(state)

IsPrefix(a, b) == Len(a) <= Len(b) /\ SubSeq(b, 1, Len(a)) = a

\* C14: every step leaves the previous conversation_history as a prefix of
\* the new one.
C14_HistoryAppendOnly ==
    [][IsPrefix(state.conversation_history, state'.conversation_history)]_vars

C14_Witness ==
    /\ pc = "done"
    /\ Len(state.conversation_history) = 4
    /\ state.conversation_history[1].agent = "researcher"
    /\ state.conversation_history[4].agent = "writer"

\* C15: updated_at never decreases, and every step that changes a field of
\* the state sets updated_at to the time of the step.
C15_UpdatedAtTouched ==
    [][/\ state'.updated_at >= state.updated_at
       /\ state' # state => state'.updated_at = clock]_vars

\* C16 as stated: after the analyzer stage analyzed_findings is empty only
\* if raw_research is empty or every source was discarded by the filter.
C16_EmptyOnlyIfFiltered ==
    (pc \in {"critic", "critic_body", "writer", "done"} /\ state.analyzed_findings = <<>>) =>
        \/ state.raw_research = <<>>
        \/ filtered = Len(state.raw_research)

\* C16 amended: ... or a model call raised inside analyzer_agent.
C16_EmptyOnlyIfFilteredOrRaised ==
    (pc \in {"critic", "critic_body", "writer", "done"} /\ state.analyzed_findings = <<>>) =>
        \/ state.raw_research = <<>>
        \/ filtered = Len(state.raw_research)
        \/ ret.analyzer = "raised"

C16_Witness ==
    /\ pc = "critic"
    /\ state.analyzed_findings = <<>>
    /\ Len(state.raw_research) >= 2
    /\ filtered = Len(state.raw_research)
    /\ ret.analyzer = "all_irrelevant"

\* C17: analyzer_agent on empty raw_research appends exactly one history
\* entry and neither sets execution_status to error nor touches
\* error_message; analyzer_agent on sources that are all filtered returns
\* with execution_status = error and a non-empty error_message, without a
\* history entry of its own and with analyzed_findings as it was.
C17_AnalyzerDegenerateInputs ==
    /\ [][(pc = "analyzer" /\ state.raw_research = <<>>) =>
             /\ Len(state'.conversation_history) = Len(state.conversation_history) + 1
             /\ IsPrefix(state.conversation_history, state'.conversation_history)
             /\ state'.conversation_history[Len(state'.conversation_history)].agent = "analyzer"
             /\ state'.execution_status # "error"
             /\ state'.error_message = state.error_message
             /\ pc' = "critic"]_vars
    /\ []((pc = "critic" /\ state.raw_research # <<>>
              /\ ret.analyzer # "raised" /\ filtered = Len(state.raw_research)) =>
             /\ state.execution_status = "error"
             /\ state.error_message \notin {None, ""}
             /\ \A i \in 1..Len(state.conversation_history) :
                   state.conversation_history[i].agent # "analyzer"
             /\ state.analyzed_findings = <<>>)

C17_Witness ==
    /\ pc = "critic"
    /\ ret.analyzer = "all_irrelevant"
    /\ filtered = Len(state.raw_research)
    /\ filtered >= 2
    /\ state.execution_status = "error"
    /\ Len(state.conversation_history) = 1

\* C18: when writer_agent ran on findings and its model call returned,
\* final_report is the model output, execution_status is completed whatever
\* it was before, and report_metadata counts len(raw_research) sources and
\* len(analyzed_findings) findings and tells whether verification_status is
\* completed.
C18_WriterSuccess ==
    (pc = "done" /\ ret.writer = "ok") =>
        /\ state.final_report = report_out
        /\ report_out \in ReportTexts
        /\ state.execution_status = "completed"
        /\ state.report_metadata.query = state.research_query
        /\ state.report_metadata.sources_used = Len(state.raw_research)
        /\ state.report_metadata.findings_extracted = Len(state.analyzed_findings)
        /\ state.report_metadata.verification_completed =
              (state.verification_status = "completed")

C18_Witness ==
    /\ pc = "done"
    /\ ret.critic = "raised"
    /\ ret.writer = "ok"
    /\ state.execution_status = "completed"
    /\ state.report_metadata.verification_completed = FALSE
    /\ state.report_metadata.findings_extracted < state.report_metadata.sources_used

VerificationRank(v) ==
    CASE v = "not_started" -> 0 [] v = "in_progress" -> 1 [] v = "completed" -> 2

Pos(rr, src) == CHOOSE k \in 1..Len(rr) : rr[k] = src

\* one finding per kept source: unverified, citing exactly that source, and
\* in the order of the sources
FindingsFollowSources(fs, rr) ==
    /\ \A i \in 1..Len(fs) :
          /\ fs[i].verified = FALSE
          /\ Len(fs[i].sources) = 1
          /\ \E k \in 1..Len(rr) : rr[k] = fs[i].sources[1]
    /\ \A i, j \in 1..Len(fs) :
          i < j => Pos(rr, fs[i].sources[1]) < Pos(rr, fs[j].sources[1])

\* C21: on success analyzer_agent produces exactly one finding per source
\* that survives the relevance filter, each with verified = false and
\* sources = [that source], in the relative order of the sources in
\* raw_research; the same holds of the findings gathered so far after every
\* iteration of the loop.
C21_OneFindingPerSurvivor ==
    /\ (pc = "analyzer_loop" =>
           /\ Len(findings) + filtered = idx - 1
           /\ FindingsFollowSources(findings, state.raw_research)
           /\ \A i \in 1..Len(findings) :
                 Pos(state.raw_research, findings[i].sources[1]) < idx)
    /\ ((pc \in {"critic", "critic_body"} /\ ret.analyzer = "ok") =>
           /\ Len(state.analyzed_findings) = Len(state.raw_research) - filtered
           /\ FindingsFollowSources(state.analyzed_findings, state.raw_research))

C21_Witness ==
    /\ pc = "critic"
    /\ ret.analyzer = "ok"
    /\ filtered >= 1
    /\ Len(state.analyzed_findings) >= 2
    /\ state.analyzed_findings[1].sources[1] # state.raw_research[1]

\* C22: analyzer_agent discards a source if and only if the model answered
\* NO: whatever the model answers to the relevance question, the source is
\* filtered exactly when the answer, trimmed and case-folded, is NO.
C22_FilteredIffNo ==
    [][(pc = "analyzer_loop" /\ answer' # <<>>) =>
          ((filtered' = filtered + 1) <=> (upper(strip(answer'[1])) = <<"N", "O">>))]_vars

\* C23: a critic_agent call leaves raw_research, the order and the length of
\* analyzed_findings, and every finding's topic, finding text, sources and
\* those sources' reliability_score unchanged; the only field of a finding
\* it may change is verified. What validate_sources returns stays in the
\* critic's local.
C23_RescoringIsAdvisory ==
    [][(pc \in {"critic", "critic_body"}) =>
          /\ state'.raw_research = state.raw_research
          /\ Len(state'.analyzed_findings) = Len(state.analyzed_findings)
          /\ \A i \in 1..Len(state.analyzed_findings) :
                /\ state'.analyzed_findings[i].topic = state.analyzed_findings[i].topic
                /\ state'.analyzed_findings[i].finding = state.analyzed_findings[i].finding
                /\ state'.analyzed_findings[i].sources = state.analyzed_findings[i].sources
                /\ \A k \in 1..Len(state.analyzed_findings[i].sources) :
                      state'.analyzed_findings[i].sources[k].reliability_score =
                          state.analyzed_findings[i].sources[k].reliability_score
                /\ DOMAIN state'.analyzed_findings[i] = DOMAIN state.analyzed_findings[i]]_vars

\* the critic returned after validate_sources scored a web source 0.5 whose
\* stored score is still 0.6
C23_Witness ==
    /\ pc = "writer"
    /\ ret.critic = "ok"
    /\ AllVerified(state)
    /\ \E i \in 1..Len(state.analyzed_findings), v \in 1..Len(validated_sources) :
          /\ validated_sources[v].url = state.analyzed_findings[i].sources[1].url
          /\ validated_sources[v].reliability_score = 5
          /\ state.analyzed_findings[i].sources[1].reliability_score = 6

\* number of stored sources of one type
CountType(rr, source_type) ==
    Cardinality({i \in 1..Len(rr) : rr[i].source_type = source_type})

\* C24: on success researcher_agent appends exactly one history entry, and
\* the per-backend counts it reports equal the number of wikipedia-type and
\* web-type sources stored in raw_research, so that the two counts sum to
\* the reported total.
C24_ReportedCounts ==
    (pc = "analyzer" /\ ret.researcher = "ok") =>
        /\ Len(state.conversation_history) = 1
        /\ LET args == state.conversation_history[1].result.args
           IN /\ args[1] = Len(state.raw_research)
              /\ args[2] = CountType(state.raw_research, "wikipedia")
              /\ args[3] = CountType(state.raw_research, "web")
              /\ args[2] + args[3] = args[1]

\* C25: in every state reachable through the stages execution_status = error
\* implies a non-null error_message, and an error_message once set is never
\* reset to null by a later step; a returned state can therefore be
\* completed and carry an error_message (the witness).
C25_ErrorMessageSticks ==
    /\ [](state.execution_status = "error" => state.error_message # None)
    /\ [][state.error_message # None => state'.error_message # None]_vars

C25_Witness ==
    /\ pc = "done"
    /\ state.execution_status = "completed"
    /\ state.error_message # None
    /\ ret.critic = "raised"

StageBoundaries == {"researcher", "analyzer", "critic", "writer", "done"}

\* C26: at every stage boundary of execute_workflow, if any finding has
\* verified = true then verification_status = completed, and if
\* verification_status = completed then analyzed_findings is non-empty,
\* every finding has verified = true and the history has a critic entry.
C26_VerifiedConsistent ==
    pc \in StageBoundaries =>
        /\ (\E i \in 1..Len(state.analyzed_findings) : state.analyzed_findings[i].verified)
              => state.verification_status = "completed"
        /\ state.verification_status = "completed" =>
              /\ state.analyzed_findings # <<>>
              /\ AllVerified(state)
              /\ \E h \in 1..Len(state.conversation_history) :
                    state.conversation_history[h].agent = "critic"

C26_Witness ==
    /\ pc = "writer"
    /\ state.verification_status = "completed"
    /\ Len(state.analyzed_findings) >= 2
    /\ AllVerified(state)

\* C27: in every state execute_workflow returns, execution_status =
\* completed implies that analyzed_findings is non-empty, final_report is
\* what the model returned to the writer and not the placeholder path,
\* report_metadata is populated and the last history entry is the writer's;
\* no step outside writer_agent sets execution_status to completed.
C27_CompletedMeansReport ==
    /\ []((pc = "done" /\ state.execution_status = "completed") =>
             /\ state.analyzed_findings # <<>>
             /\ ret.writer = "ok"
             /\ report_out # None
             /\ state.final_report = report_out
             /\ state.report_metadata = ReportMetadata(state)
             /\ state.report_metadata # EmptyDict
             /\ state.conversation_history # <<>>
             /\ state.conversation_history[Len(state.conversation_history)].agent = "writer")
    /\ [][(state'.execution_status = "completed" /\ state.execution_status # "completed")
             => (pc = "writer" /\ pc' = "done")]_vars

C27_Witness ==
    /\ pc = "done"
    /\ state.execution_status = "completed"
    /\ state.final_report = "report text"
    /\ state.report_metadata.findings_extracted = Len(state.analyzed_findings)

\* C28: the number of model invocations is bounded by the stages' inputs:
\* the analyzer makes one call per filtered source and two per surviving
\* source, the critic at most one and the writer at most one, a whole run
\* at most 2 * len(raw_research) + 2; when the researcher stores no sources
\* the whole run makes no model invocation and appends at most one history
\* entry.
C28_BoundedInvocations ==
    /\ [](pc = "analyzer_loop" => llm_calls = filtered + 2 * Len(findings))
    /\ []((pc = "critic" /\ ret.analyzer \in {"ok", "all_irrelevant"}) =>
             llm_calls = filtered + 2 * Len(state.analyzed_findings))
    /\ [](pc = "critic" => llm_calls <= 2 * Len(state.raw_research))
    /\ [][(pc \in {"critic", "critic_body", "writer"}) =>
             (llm_calls' \in {llm_calls, llm_calls + 1})]_vars
    /\ [](pc = "done" => llm_calls <= 2 * Len(state.raw_research) + 2)
    /\ []((pc = "done" /\ state.raw_research = <<>>) =>
             /\ llm_calls = 0
             /\ Len(state.conversation_history) <= 1)

C28_Witness ==
    /\ pc = "done"
    /\ Len(state.raw_research) >= 2
    /\ filtered = 0
    /\ llm_calls = 2 * Len(state.raw_research) + 2

====
